---- MODULE Spec2Model ----
(***************************************************************************)
(* Key-binding engine of calcurse (src/keys.c): the key-name tables, the   *)
(* forward lists keys[], the reverse map actions[] / actions_ext, and the  *)
(* operations that assign, remove and fill in bindings.                    *)
(*                                                                         *)
(* C strings are sequences of byte values; the null pointer is NULL.       *)
(***************************************************************************)
EXTENDS Integers, Sequences, FiniteSets, TLC

\* ---------------------------------------------------------------- constants
\* curses.h
KEY_MIN == 257
KEY_MAX == 511
KEY_DOWN == 258
KEY_UP == 259
KEY_LEFT == 260
KEY_RIGHT == 261
KEY_HOME == 262
KEY_F0 == 264
KEY_DC == 330
KEY_IC == 331
KEY_NPAGE == 338
KEY_PPAGE == 339
KEY_END == 360
KEY_RESIZE == 410
KEY_F(n) == KEY_F0 + n
\* calcurse.h
TAB == 9
RETURN == 10
ESCAPE == 27
SPACE == 32
\* enum vkey: the virtual keys are 0 .. NBVKEYS-1, then NBVKEYS, then KEY_UNDEF
NBVKEYS == 48
KEY_UNDEF == NBVKEYS + 1

\* The null pointer, as a value no string equals.
NULL == <<0 - 1>>

VKeys == 0 .. (NBVKEYS - 1)

Min(S) == CHOOSE x \in S : \A y \in S : x <= y

\* ------------------------------------------------------------ built-in table
\* keydef[i].binding: the space-separated default key names of virtual key i
keydef_binding ==
  <<
    <<69,83,67>>,   \* 0: generic-cancel  "ESC"
    <<83,80,67>>,   \* 1: generic-select  "SPC"
    <<64>>,   \* 2: generic-credits  "@"
    <<63>>,   \* 3: generic-help  "?"
    <<113,32,81>>,   \* 4: generic-quit  "q Q"
    <<115,32,83,32,94,83>>,   \* 5: generic-save  "s S ^S"
    <<82>>,   \* 6: generic-reload  "R"
    <<99>>,   \* 7: generic-copy  "c"
    <<112,32,94,86>>,   \* 8: generic-paste  "p ^V"
    <<84,65,66>>,   \* 9: generic-change-view  "TAB"
    <<75,69,89,95,66,84,65,66>>,   \* 10: generic-prev-view  "KEY_BTAB"
    <<105,32,73>>,   \* 11: generic-import  "i I"
    <<120,32,88>>,   \* 12: generic-export  "x X"
    <<103,32,71>>,   \* 13: generic-goto  "g G"
    <<111,32,79>>,   \* 14: generic-other-cmd  "o O"
    <<67>>,   \* 15: generic-config-menu  "C"
    <<94,82>>,   \* 16: generic-redraw  "^R"
    <<94,65>>,   \* 17: generic-add-appt  "^A"
    <<94,84>>,   \* 18: generic-add-todo  "^T"
    <<84,32,94,72>>,   \* 19: generic-prev-day  "T ^H"
    <<116,32,94,76>>,   \* 20: generic-next-day  "t ^L"
    <<87,32,94,75>>,   \* 21: generic-prev-week  "W ^K"
    <<119>>,   \* 22: generic-next-week  "w"
    <<77>>,   \* 23: generic-prev-month  "M"
    <<109>>,   \* 24: generic-next-month  "m"
    <<89>>,   \* 25: generic-prev-year  "Y"
    <<121>>,   \* 26: generic-next-year  "y"
    <<94,78>>,   \* 27: generic-scroll-down  "^N"
    <<94,80>>,   \* 28: generic-scroll-up  "^P"
    <<94,71>>,   \* 29: generic-goto-today  "^G"
    <<58>>,   \* 30: generic-command  ":"
    <<108,32,76,32,82,71,84>>,   \* 31: move-right  "l L RGT"
    <<104,32,72,32,76,70,84>>,   \* 32: move-left  "h H LFT"
    <<106,32,74,32,68,87,78>>,   \* 33: move-down  "j J DWN"
    <<107,32,75,32,85,80>>,   \* 34: move-up  "k K UP"
    <<48>>,   \* 35: start-of-week  "0"
    <<36>>,   \* 36: end-of-week  "$"
    <<97,32,65>>,   \* 37: add-item  "a A"
    <<100,32,68>>,   \* 38: del-item  "d D"
    <<101,32,69>>,   \* 39: edit-item  "e E"
    <<118,32,86,32,82,69,84>>,   \* 40: view-item  "v V RET"
    <<124>>,   \* 41: pipe-item  "|"
    <<33>>,   \* 42: flag-item  "!"
    <<114>>,   \* 43: repeat  "r"
    <<110,32,78>>,   \* 44: edit-note  "n N"
    <<62>>,   \* 45: view-note  ">"
    <<43>>,   \* 46: raise-priority  "+"
    <<45>>   \* 47: lower-priority  "-"
  >>

\* ------------------------------------------------------------------ key names
\* ncurses keyname() for the pseudo-characters KEY_MIN .. KEY_RESIZE
curses_keyname ==
  <<
    <<75,69,89,95,66,82,69,65,75>>,   \* 257: KEY_BREAK
    <<75,69,89,95,68,79,87,78>>,   \* 258: KEY_DOWN
    <<75,69,89,95,85,80>>,   \* 259: KEY_UP
    <<75,69,89,95,76,69,70,84>>,   \* 260: KEY_LEFT
    <<75,69,89,95,82,73,71,72,84>>,   \* 261: KEY_RIGHT
    <<75,69,89,95,72,79,77,69>>,   \* 262: KEY_HOME
    <<75,69,89,95,66,65,67,75,83,80,65,67,69>>,   \* 263: KEY_BACKSPACE
    <<75,69,89,95,70,40,48,41>>,   \* 264: KEY_F(0)
    <<75,69,89,95,70,40,49,41>>,   \* 265: KEY_F(1)
    <<75,69,89,95,70,40,50,41>>,   \* 266: KEY_F(2)
    <<75,69,89,95,70,40,51,41>>,   \* 267: KEY_F(3)
    <<75,69,89,95,70,40,52,41>>,   \* 268: KEY_F(4)
    <<75,69,89,95,70,40,53,41>>,   \* 269: KEY_F(5)
    <<75,69,89,95,70,40,54,41>>,   \* 270: KEY_F(6)
    <<75,69,89,95,70,40,55,41>>,   \* 271: KEY_F(7)
    <<75,69,89,95,70,40,56,41>>,   \* 272: KEY_F(8)
    <<75,69,89,95,70,40,57,41>>,   \* 273: KEY_F(9)
    <<75,69,89,95,70,40,49,48,41>>,   \* 274: KEY_F(10)
    <<75,69,89,95,70,40,49,49,41>>,   \* 275: KEY_F(11)
    <<75,69,89,95,70,40,49,50,41>>,   \* 276: KEY_F(12)
    <<75,69,89,95,70,40,49,51,41>>,   \* 277: KEY_F(13)
    <<75,69,89,95,70,40,49,52,41>>,   \* 278: KEY_F(14)
    <<75,69,89,95,70,40,49,53,41>>,   \* 279: KEY_F(15)
    <<75,69,89,95,70,40,49,54,41>>,   \* 280: KEY_F(16)
    <<75,69,89,95,70,40,49,55,41>>,   \* 281: KEY_F(17)
    <<75,69,89,95,70,40,49,56,41>>,   \* 282: KEY_F(18)
    <<75,69,89,95,70,40,49,57,41>>,   \* 283: KEY_F(19)
    <<75,69,89,95,70,40,50,48,41>>,   \* 284: KEY_F(20)
    <<75,69,89,95,70,40,50,49,41>>,   \* 285: KEY_F(21)
    <<75,69,89,95,70,40,50,50,41>>,   \* 286: KEY_F(22)
    <<75,69,89,95,70,40,50,51,41>>,   \* 287: KEY_F(23)
    <<75,69,89,95,70,40,50,52,41>>,   \* 288: KEY_F(24)
    <<75,69,89,95,70,40,50,53,41>>,   \* 289: KEY_F(25)
    <<75,69,89,95,70,40,50,54,41>>,   \* 290: KEY_F(26)
    <<75,69,89,95,70,40,50,55,41>>,   \* 291: KEY_F(27)
    <<75,69,89,95,70,40,50,56,41>>,   \* 292: KEY_F(28)
    <<75,69,89,95,70,40,50,57,41>>,   \* 293: KEY_F(29)
    <<75,69,89,95,70,40,51,48,41>>,   \* 294: KEY_F(30)
    <<75,69,89,95,70,40,51,49,41>>,   \* 295: KEY_F(31)
    <<75,69,89,95,70,40,51,50,41>>,   \* 296: KEY_F(32)
    <<75,69,89,95,70,40,51,51,41>>,   \* 297: KEY_F(33)
    <<75,69,89,95,70,40,51,52,41>>,   \* 298: KEY_F(34)
    <<75,69,89,95,70,40,51,53,41>>,   \* 299: KEY_F(35)
    <<75,69,89,95,70,40,51,54,41>>,   \* 300: KEY_F(36)
    <<75,69,89,95,70,40,51,55,41>>,   \* 301: KEY_F(37)
    <<75,69,89,95,70,40,51,56,41>>,   \* 302: KEY_F(38)
    <<75,69,89,95,70,40,51,57,41>>,   \* 303: KEY_F(39)
    <<75,69,89,95,70,40,52,48,41>>,   \* 304: KEY_F(40)
    <<75,69,89,95,70,40,52,49,41>>,   \* 305: KEY_F(41)
    <<75,69,89,95,70,40,52,50,41>>,   \* 306: KEY_F(42)
    <<75,69,89,95,70,40,52,51,41>>,   \* 307: KEY_F(43)
    <<75,69,89,95,70,40,52,52,41>>,   \* 308: KEY_F(44)
    <<75,69,89,95,70,40,52,53,41>>,   \* 309: KEY_F(45)
    <<75,69,89,95,70,40,52,54,41>>,   \* 310: KEY_F(46)
    <<75,69,89,95,70,40,52,55,41>>,   \* 311: KEY_F(47)
    <<75,69,89,95,70,40,52,56,41>>,   \* 312: KEY_F(48)
    <<75,69,89,95,70,40,52,57,41>>,   \* 313: KEY_F(49)
    <<75,69,89,95,70,40,53,48,41>>,   \* 314: KEY_F(50)
    <<75,69,89,95,70,40,53,49,41>>,   \* 315: KEY_F(51)
    <<75,69,89,95,70,40,53,50,41>>,   \* 316: KEY_F(52)
    <<75,69,89,95,70,40,53,51,41>>,   \* 317: KEY_F(53)
    <<75,69,89,95,70,40,53,52,41>>,   \* 318: KEY_F(54)
    <<75,69,89,95,70,40,53,53,41>>,   \* 319: KEY_F(55)
    <<75,69,89,95,70,40,53,54,41>>,   \* 320: KEY_F(56)
    <<75,69,89,95,70,40,53,55,41>>,   \* 321: KEY_F(57)
    <<75,69,89,95,70,40,53,56,41>>,   \* 322: KEY_F(58)
    <<75,69,89,95,70,40,53,57,41>>,   \* 323: KEY_F(59)
    <<75,69,89,95,70,40,54,48,41>>,   \* 324: KEY_F(60)
    <<75,69,89,95,70,40,54,49,41>>,   \* 325: KEY_F(61)
    <<75,69,89,95,70,40,54,50,41>>,   \* 326: KEY_F(62)
    <<75,69,89,95,70,40,54,51,41>>,   \* 327: KEY_F(63)
    <<75,69,89,95,68,76>>,   \* 328: KEY_DL
    <<75,69,89,95,73,76>>,   \* 329: KEY_IL
    <<75,69,89,95,68,67>>,   \* 330: KEY_DC
    <<75,69,89,95,73,67>>,   \* 331: KEY_IC
    <<75,69,89,95,69,73,67>>,   \* 332: KEY_EIC
    <<75,69,89,95,67,76,69,65,82>>,   \* 333: KEY_CLEAR
    <<75,69,89,95,69,79,83>>,   \* 334: KEY_EOS
    <<75,69,89,95,69,79,76>>,   \* 335: KEY_EOL
    <<75,69,89,95,83,70>>,   \* 336: KEY_SF
    <<75,69,89,95,83,82>>,   \* 337: KEY_SR
    <<75,69,89,95,78,80,65,71,69>>,   \* 338: KEY_NPAGE
    <<75,69,89,95,80,80,65,71,69>>,   \* 339: KEY_PPAGE
    <<75,69,89,95,83,84,65,66>>,   \* 340: KEY_STAB
    <<75,69,89,95,67,84,65,66>>,   \* 341: KEY_CTAB
    <<75,69,89,95,67,65,84,65,66>>,   \* 342: KEY_CATAB
    <<75,69,89,95,69,78,84,69,82>>,   \* 343: KEY_ENTER
    <<75,69,89,95,83,82,69,83,69,84>>,   \* 344: KEY_SRESET
    <<75,69,89,95,82,69,83,69,84>>,   \* 345: KEY_RESET
    <<75,69,89,95,80,82,73,78,84>>,   \* 346: KEY_PRINT
    <<75,69,89,95,76,76>>,   \* 347: KEY_LL
    <<75,69,89,95,65,49>>,   \* 348: KEY_A1
    <<75,69,89,95,65,51>>,   \* 349: KEY_A3
    <<75,69,89,95,66,50>>,   \* 350: KEY_B2
    <<75,69,89,95,67,49>>,   \* 351: KEY_C1
    <<75,69,89,95,67,51>>,   \* 352: KEY_C3
    <<75,69,89,95,66,84,65,66>>,   \* 353: KEY_BTAB
    <<75,69,89,95,66,69,71>>,   \* 354: KEY_BEG
    <<75,69,89,95,67,65,78,67,69,76>>,   \* 355: KEY_CANCEL
    <<75,69,89,95,67,76,79,83,69>>,   \* 356: KEY_CLOSE
    <<75,69,89,95,67,79,77,77,65,78,68>>,   \* 357: KEY_COMMAND
    <<75,69,89,95,67,79,80,89>>,   \* 358: KEY_COPY
    <<75,69,89,95,67,82,69,65,84,69>>,   \* 359: KEY_CREATE
    <<75,69,89,95,69,78,68>>,   \* 360: KEY_END
    <<75,69,89,95,69,88,73,84>>,   \* 361: KEY_EXIT
    <<75,69,89,95,70,73,78,68>>,   \* 362: KEY_FIND
    <<75,69,89,95,72,69,76,80>>,   \* 363: KEY_HELP
    <<75,69,89,95,77,65,82,75>>,   \* 364: KEY_MARK
    <<75,69,89,95,77,69,83,83,65,71,69>>,   \* 365: KEY_MESSAGE
    <<75,69,89,95,77,79,86,69>>,   \* 366: KEY_MOVE
    <<75,69,89,95,78,69,88,84>>,   \* 367: KEY_NEXT
    <<75,69,89,95,79,80,69,78>>,   \* 368: KEY_OPEN
    <<75,69,89,95,79,80,84,73,79,78,83>>,   \* 369: KEY_OPTIONS
    <<75,69,89,95,80,82,69,86,73,79,85,83>>,   \* 370: KEY_PREVIOUS
    <<75,69,89,95,82,69,68,79>>,   \* 371: KEY_REDO
    <<75,69,89,95,82,69,70,69,82,69,78,67,69>>,   \* 372: KEY_REFERENCE
    <<75,69,89,95,82,69,70,82,69,83,72>>,   \* 373: KEY_REFRESH
    <<75,69,89,95,82,69,80,76,65,67,69>>,   \* 374: KEY_REPLACE
    <<75,69,89,95,82,69,83,84,65,82,84>>,   \* 375: KEY_RESTART
    <<75,69,89,95,82,69,83,85,77,69>>,   \* 376: KEY_RESUME
    <<75,69,89,95,83,65,86,69>>,   \* 377: KEY_SAVE
    <<75,69,89,95,83,66,69,71>>,   \* 378: KEY_SBEG
    <<75,69,89,95,83,67,65,78,67,69,76>>,   \* 379: KEY_SCANCEL
    <<75,69,89,95,83,67,79,77,77,65,78,68>>,   \* 380: KEY_SCOMMAND
    <<75,69,89,95,83,67,79,80,89>>,   \* 381: KEY_SCOPY
    <<75,69,89,95,83,67,82,69,65,84,69>>,   \* 382: KEY_SCREATE
    <<75,69,89,95,83,68,67>>,   \* 383: KEY_SDC
    <<75,69,89,95,83,68,76>>,   \* 384: KEY_SDL
    <<75,69,89,95,83,69,76,69,67,84>>,   \* 385: KEY_SELECT
    <<75,69,89,95,83,69,78,68>>,   \* 386: KEY_SEND
    <<75,69,89,95,83,69,79,76>>,   \* 387: KEY_SEOL
    <<75,69,89,95,83,69,88,73,84>>,   \* 388: KEY_SEXIT
    <<75,69,89,95,83,70,73,78,68>>,   \* 389: KEY_SFIND
    <<75,69,89,95,83,72,69,76,80>>,   \* 390: KEY_SHELP
    <<75,69,89,95,83,72,79,77,69>>,   \* 391: KEY_SHOME
    <<75,69,89,95,83,73,67>>,   \* 392: KEY_SIC
    <<75,69,89,95,83,76,69,70,84>>,   \* 393: KEY_SLEFT
    <<75,69,89,95,83,77,69,83,83,65,71,69>>,   \* 394: KEY_SMESSAGE
    <<75,69,89,95,83,77,79,86,69>>,   \* 395: KEY_SMOVE
    <<75,69,89,95,83,78,69,88,84>>,   \* 396: KEY_SNEXT
    <<75,69,89,95,83,79,80,84,73,79,78,83>>,   \* 397: KEY_SOPTIONS
    <<75,69,89,95,83,80,82,69,86,73,79,85,83>>,   \* 398: KEY_SPREVIOUS
    <<75,69,89,95,83,80,82,73,78,84>>,   \* 399: KEY_SPRINT
    <<75,69,89,95,83,82,69,68,79>>,   \* 400: KEY_SREDO
    <<75,69,89,95,83,82,69,80,76,65,67,69>>,   \* 401: KEY_SREPLACE
    <<75,69,89,95,83,82,73,71,72,84>>,   \* 402: KEY_SRIGHT
    <<75,69,89,95,83,82,83,85,77,69>>,   \* 403: KEY_SRSUME
    <<75,69,89,95,83,83,65,86,69>>,   \* 404: KEY_SSAVE
    <<75,69,89,95,83,83,85,83,80,69,78,68>>,   \* 405: KEY_SSUSPEND
    <<75,69,89,95,83,85,78,68,79>>,   \* 406: KEY_SUNDO
    <<75,69,89,95,83,85,83,80,69,78,68>>,   \* 407: KEY_SUSPEND
    <<75,69,89,95,85,78,68,79>>,   \* 408: KEY_UNDO
    <<75,69,89,95,77,79,85,83,69>>,   \* 409: KEY_MOUSE
    <<75,69,89,95,82,69,83,73,90,69>>   \* 410: KEY_RESIZE
  >>

\* ncurses keyname(): caret notation for control characters, the character
\* itself for printable ASCII, KEY_xxx for the pseudo-characters it knows, and
\* a null pointer otherwise.
keyname(i) ==
  IF i >= 0 /\ i < 32 THEN <<94, i + 64>>
  ELSE IF i >= 32 /\ i < 127 THEN <<i>>
  ELSE IF i = 127 THEN <<94, 63>>
  ELSE IF i >= KEY_MIN /\ i - KEY_MIN + 1 <= Len(curses_keyname)
       THEN curses_keyname[i - KEY_MIN + 1]
  ELSE NULL

\* keys_init: "Replace some with calcurse short forms."
short_form(i) ==
  CASE i = TAB -> <<84,65,66>>   \* "TAB"
    [] i = RETURN -> <<82,69,84>>   \* "RET"
    [] i = ESCAPE -> <<69,83,67>>   \* "ESC"
    [] i = SPACE -> <<83,80,67>>   \* "SPC"
    [] i = KEY_UP -> <<85,80>>   \* "UP"
    [] i = KEY_DOWN -> <<68,87,78>>   \* "DWN"
    [] i = KEY_LEFT -> <<76,70,84>>   \* "LFT"
    [] i = KEY_RIGHT -> <<82,71,84>>   \* "RGT"
    [] i = KEY_HOME -> <<72,79,77>>   \* "HOM"
    [] i = KEY_END -> <<69,78,68>>   \* "END"
    [] i = KEY_NPAGE -> <<80,103,68>>   \* "PgD"
    [] i = KEY_PPAGE -> <<80,103,85>>   \* "PgU"
    [] i = KEY_IC -> <<73,78,83>>   \* "INS"
    [] i = KEY_DC -> <<68,69,76>>   \* "DEL"
    [] i = KEY_F(1) -> <<70,49>>   \* "F1"
    [] i = KEY_F(2) -> <<70,50>>   \* "F2"
    [] i = KEY_F(3) -> <<70,51>>   \* "F3"
    [] i = KEY_F(4) -> <<70,52>>   \* "F4"
    [] i = KEY_F(5) -> <<70,53>>   \* "F5"
    [] i = KEY_F(6) -> <<70,54>>   \* "F6"
    [] i = KEY_F(7) -> <<70,55>>   \* "F7"
    [] i = KEY_F(8) -> <<70,56>>   \* "F8"
    [] i = KEY_F(9) -> <<70,57>>   \* "F9"
    [] i = KEY_F(10) -> <<70,49,48>>   \* "F10"
    [] i = KEY_F(11) -> <<70,49,49>>   \* "F11"
    [] i = KEY_F(12) -> <<70,49,50>>   \* "F12"
    [] OTHER -> NULL

\* keynames[]: the table keys_init builds; "" for a code without a name.
keynames ==
  [i \in 0 .. (KEY_MAX - 1) |->
     IF short_form(i) # NULL THEN short_form(i)
     ELSE IF ((i >= 1 /\ i < 128) \/ i >= KEY_MIN) /\ keyname(i) # NULL
          THEN keyname(i)
     ELSE <<>>]

\* ----------------------------------------------------------------------- UTF-8
UTF8_LENGTH(ch) ==
  IF ch >= 240 THEN 4 ELSE IF ch >= 224 THEN 3 ELSE IF ch >= 192 THEN 2 ELSE 1

\* Byte i of the C string s; the terminating NUL after its last byte.
ByteAt(s, i) == IF i <= Len(s) THEN s[i] ELSE 0

utf8_decode(s) ==
  LET n == UTF8_LENGTH(ByteAt(s, 1))
  IN  IF n = 1 THEN ByteAt(s, 1)
      ELSE IF n = 2 THEN (ByteAt(s, 1) % 32) * 64 + (ByteAt(s, 2) % 64)
      ELSE IF n = 3 THEN (ByteAt(s, 1) % 16) * 4096 + (ByteAt(s, 2) % 64) * 64
                         + (ByteAt(s, 3) % 64)
      ELSE (ByteAt(s, 1) % 8) * 262144 + (ByteAt(s, 2) % 64) * 4096
           + (ByteAt(s, 3) % 64) * 64 + (ByteAt(s, 4) % 64)

utf8_encode(u) ==
  IF u = 0 THEN <<>>
  ELSE IF u < 128 THEN <<u>>
  ELSE IF u < 2048 THEN <<192 + (u \div 64), 128 + (u % 64)>>
  ELSE IF u < 65536
       THEN <<224 + (u \div 4096), 128 + ((u \div 64) % 64), 128 + (u % 64)>>
  ELSE <<240 + (u \div 262144), 128 + ((u \div 4096) % 64),
         128 + ((u \div 64) % 64), 128 + (u % 64)>>

\* ------------------------------------------------------- names <-> key codes
\* Variant: a name found in no table gives its bare code point.
keys_str2int_m(key) ==
  IF key = NULL THEN 0 - 1
  ELSE IF key = <<94,74>> THEN RETURN
  ELSE IF key = <<75,69,89,95,72,79,77,69>> THEN KEY_HOME
  ELSE IF key = <<75,69,89,95,69,78,68>> THEN KEY_END
  ELSE LET ascii  == {i \in 1 .. 127 : keynames[i] = key}
           pseudo == {i \in KEY_MIN .. (KEY_MAX - 1) : keynames[i] = key}
       IN  IF ascii # {} THEN Min(ascii)
           ELSE IF pseudo # {} THEN Min(pseudo)
           ELSE utf8_decode(key)

keys_str2int(key) ==
  IF key = NULL THEN 0 - 1
  ELSE IF key = <<94,74>> THEN RETURN          \* "^J"
  ELSE IF key = <<75,69,89,95,72,79,77,69>> THEN KEY_HOME   \* "KEY_HOME"
  ELSE IF key = <<75,69,89,95,69,78,68>> THEN KEY_END       \* "KEY_END"
  ELSE LET ascii  == {i \in 1 .. 127 : keynames[i] = key}
           pseudo == {i \in KEY_MIN .. (KEY_MAX - 1) : keynames[i] = key}
       IN  IF ascii # {} THEN Min(ascii)
           ELSE IF pseudo # {} THEN Min(pseudo)
           ELSE utf8_decode(key) + KEY_MAX

keys_int2str(key) ==
  IF key = 0 - 1 THEN NULL
  ELSE IF key < KEY_MAX
       THEN IF keynames[key] = <<>> THEN NULL ELSE keynames[key]
  ELSE utf8_encode(key - KEY_MAX)

\* ----------------------------------------------------------- linked lists
\* LLIST_GET_DATA(LLIST_FIRST(l)): the data of the first item, or a null
\* pointer when the list has no item.
LLIST_FIRST_DATA(l) == IF l = <<>> THEN NULL ELSE l[1]

\* LLIST_ADD(l, data): a new item at the end of the list.
LLIST_ADD(l, data) == Append(l, data)

\* LLIST_REMOVE(l, i) for the item at position n (nothing for no item).
LLIST_REMOVE(l, n) ==
  IF n < 1 \/ n > Len(l) THEN l
  ELSE SubSeq(l, 1, n - 1) \o SubSeq(l, n + 1, Len(l))

\* LLIST_FIND_FIRST(&actions_ext, &key, key_ext_hasch): the position of the
\* first pair for key, 0 when there is none.
key_ext_find(ext, key) ==
  LET hits == {n \in 1 .. Len(ext) : ext[n].key = key}
  IN  IF hits = {} THEN 0 ELSE Min(hits)

\* ------------------------------------------------------------------- state
VARIABLES
  actions,      \* actions[KEY_MAX]: key code -> virtual key or KEY_UNDEF
  actions_ext,  \* list of struct key_ext for the codes above the array
  keys,         \* keys[NBVKEYS]: per virtual key the list of bound key names
  past_end,     \* the word that follows actions[] in memory
  oob,          \* an index outside [0, KEY_MAX) has been used into actions[]
  fault,        \* the process died in a library call given a null pointer
  undef,        \* a library call was given a null pointer and went on
  last,         \* the call made last, with its result
  bound,        \* the successful assignments not removed since, oldest first
  nops,         \* number of calls made
  code,         \* the key code given to keys_int2str
  name,         \* the name keys_int2str returned for it
  back,         \* the key code keys_str2int returned for that name
  pc,           \* how far the conversion of code has come
  input,        \* the raw units wgetch() returns, in order
  pos,          \* number of wgetch() calls made
  prefix,       \* keys_get was given count and reg pointers
  count,        \* *count of keys_get
  reg,          \* *reg of keys_get
  kch,          \* ch of keys_get
  nkeys,        \* number of keys_wgetch calls made
  result,       \* the value keys_get returned
  gpc,          \* where keys_get stands
  bar,          \* the call of keys_display_bindings_bar and what it drew
  file,         \* what keys_save_bindings wrote
  path,         \* the tables each operation used for one key code
  guard         \* a call with a virtual key argument and what it did

conv == <<code, name, back, pc>>

reader == <<input, pos, prefix, count, reg, kch, nkeys, result, gpc>>

out == <<bar, file, path, guard>>

vars == <<actions, actions_ext, keys, past_end, oob, fault, undef, last, bound, nops,
          conv, reader, out>>

\* Number of assign / remove / fill_missing calls in one run.
MaxOps == 3

\* The key codes the calls are made with: the unnamed code 0, ESC, 'Q', 'q',
\* the boundary code KEY_MAX and U+00E9 above the array.
Keys == {0, ESCAPE, 81, 113, KEY_MAX, KEY_MAX + 233}

\* The virtual keys the calls are made with: generic-cancel and generic-quit.
Actions == {0, 4}

\* past_end before the program has read or written it.
Unread == 0 - 2

\* What the word after actions[] can hold when it is first read: the bytes of
\* whatever object the linker placed there.
Garbage == {0, KEY_UNDEF}

\* The binding table as one value.
Table ==
  [actions |-> actions, actions_ext |-> actions_ext, keys |-> keys,
   past_end |-> past_end, oob |-> oob]

\* actions[key] for 0 <= key <= KEY_MAX; index KEY_MAX is one past the end.
actions_get(t, key) == IF key < KEY_MAX THEN t.actions[key] ELSE t.past_end

actions_touch(t, key) == IF key < KEY_MAX THEN t ELSE [t EXCEPT !.oob = TRUE]

actions_set(t, key, action) ==
  IF key < KEY_MAX THEN [t EXCEPT !.actions[key] = action]
  ELSE [t EXCEPT !.past_end = action, !.oob = TRUE]

\* ------------------------------------------------------------------ lookup
keys_get_action(t, pressed) ==
  IF pressed < 0 THEN 0 - 1
  ELSE IF pressed > KEY_MAX
       THEN LET n == key_ext_find(t.actions_ext, pressed)
            IN  IF n = 0 THEN KEY_UNDEF ELSE t.actions_ext[n].action
  ELSE actions_get(t, pressed)

\* ------------------------------------------------------------ forward lists
add_if_undefined(t, action) ==
  IF t.keys[action] = <<>>
  THEN [t EXCEPT !.keys[action] = LLIST_ADD(@, NULL)]
  ELSE t

del_if_undefined(t, action) ==
  IF LLIST_FIRST_DATA(t.keys[action]) = NULL
  THEN [t EXCEPT !.keys[action] = LLIST_REMOVE(@, 1)]
  ELSE t

add_key_str(t, action, key) ==
  IF action > NBVKEYS THEN t
  ELSE LET t1 == del_if_undefined(t, action)
       IN  [t1 EXCEPT !.keys[action] = LLIST_ADD(@, keys_int2str(key))]

\* The LLIST_FOREACH loop of del_key_str from item n on. strcmp() given a
\* null pointer is undefined: the process dies, or the comparison yields
\* either answer. Each result is the list left, whether the process died
\* and whether a comparison was undefined; ub is that of the items before n.
RECURSIVE del_key_scan(_, _, _, _)
del_key_scan(l, oldstr, n, ub) ==
  IF n > Len(l) THEN {[list |-> l, fault |-> FALSE, undef |-> ub]}
  ELSE IF l[n] = NULL \/ oldstr = NULL
       THEN {[list |-> l, fault |-> TRUE, undef |-> TRUE],
             [list |-> LLIST_REMOVE(l, n), fault |-> FALSE, undef |-> TRUE]}
            \cup del_key_scan(l, oldstr, n + 1, TRUE)
  ELSE IF l[n] = oldstr
       THEN {[list |-> LLIST_REMOVE(l, n), fault |-> FALSE, undef |-> ub]}
  ELSE del_key_scan(l, oldstr, n + 1, ub)

del_key_str(t, action, key) ==
  IF action > NBVKEYS THEN {[t |-> t, fault |-> FALSE, undef |-> FALSE]}
  ELSE {[t |-> IF o.fault THEN t
               ELSE add_if_undefined([t EXCEPT !.keys[action] = o.list], action),
         fault |-> o.fault, undef |-> o.undef] :
          o \in del_key_scan(t.keys[action], keys_int2str(key), 1, FALSE)}

\* ------------------------------------------------------- assign and remove
\* Variant: a code is refused only when it belongs to another virtual key.
keys_assign_binding_m(t, key, action) ==
  IF key > KEY_MAX
  THEN LET n == key_ext_find(t.actions_ext, key)
       IN  IF n # 0 /\ t.actions_ext[n].action # action
           THEN [t |-> t, ret |-> 1]
           ELSE [t |-> add_key_str(
                         [t EXCEPT !.actions_ext =
                                     LLIST_ADD(@, [key |-> key, action |-> action])],
                         action, key),
                 ret |-> 0]
  ELSE IF key > 0 - 1
       THEN IF actions_get(t, key) \notin {KEY_UNDEF, action}
            THEN [t |-> actions_touch(t, key), ret |-> 1]
            ELSE [t |-> add_key_str(actions_set(t, key, action), action, key),
                  ret |-> 0]
  ELSE [t |-> add_key_str(t, action, key), ret |-> 0]

keys_assign_binding(t, key, action) ==
  IF key > KEY_MAX
  THEN IF key_ext_find(t.actions_ext, key) # 0 THEN [t |-> t, ret |-> 1]
       ELSE [t |-> add_key_str(
                     [t EXCEPT !.actions_ext =
                                 LLIST_ADD(@, [key |-> key, action |-> action])],
                     action, key),
             ret |-> 0]
  ELSE IF key > 0 - 1
       THEN IF actions_get(t, key) # KEY_UNDEF
            THEN [t |-> actions_touch(t, key), ret |-> 1]
            ELSE [t |-> add_key_str(actions_set(t, key, action), action, key),
                  ret |-> 0]
  ELSE [t |-> add_key_str(t, action, key), ret |-> 0]

keys_remove_binding(t, key, action) ==
  IF key < 0 THEN {[t |-> t, fault |-> FALSE, undef |-> FALSE]}
  ELSE IF key <= KEY_MAX
       THEN del_key_str(actions_set(t, key, KEY_UNDEF), action, key)
  ELSE del_key_str(
         [t EXCEPT !.actions_ext = LLIST_REMOVE(@, key_ext_find(@, key))],
         action, key)

\* ------------------------------------------------------------ fill_missing
IsSpace(c) == c \in {9, 10, 11, 12, 13, 32}

\* The key codes keys_fill_missing passes to keys_assign_binding for the
\* binding string s, in order. The loop skips blanks, has sscanf("%s") read
\* the word that starts there, converts it with keys_str2int and steps over
\* it, until no word is left: it visits the maximal runs of non-space
\* characters from left to right.
binding_codes(s) ==
  LET starts == {p \in 1 .. Len(s) :
                   ~IsSpace(s[p]) /\ (p = 1 \/ IsSpace(s[p - 1]))}
      stop(p) == Min({q \in p .. Len(s) : q = Len(s) \/ IsSpace(s[q + 1])})
      nth(n) == CHOOSE p \in starts : Cardinality({x \in starts : x < p}) = n - 1
  IN  [n \in 1 .. Cardinality(starts) |->
         keys_str2int(SubSeq(s, nth(n), stop(nth(n))))]

\* The codes of every virtual key's defaults (the tables never change).
keydef_codes == [i \in VKeys |-> binding_codes(keydef_binding[i + 1])]

\* The inner loop for virtual key i from default number n on: the table
\* left, whether a default was assigned, whether an assignment failed.
RECURSIVE fill_keys(_, _, _, _, _)
fill_keys(t, i, n, assign, done) ==
  IF n > Len(keydef_codes[i])
  THEN [t |-> t, assign |-> assign, failed |-> FALSE, done |-> done]
  ELSE LET ch == keydef_codes[i][n]
           r == keys_assign_binding(t, ch, i)
       IN  IF r.ret # 0
           THEN [t |-> r.t, assign |-> assign, failed |-> TRUE, done |-> done]
           ELSE fill_keys(r.t, i, n + 1, 1,
                          Append(done, [key |-> ch, action |-> i]))

\* Variant: the defaults are assigned to every virtual key, missing or not.
RECURSIVE fill_from_m(_, _, _, _)
fill_from_m(t, i, assigned, done) ==
  IF i >= NBVKEYS
  THEN [t |-> t, ret |-> assigned, failed |-> FALSE, index |-> 0 - 1, done |-> done]
  ELSE LET r == fill_keys(t, i, 1, 0, done)
       IN  IF r.failed
           THEN [t |-> r.t, ret |-> 0 - i, failed |-> TRUE, index |-> i,
                 done |-> r.done]
           ELSE fill_from_m(r.t, i + 1, assigned + r.assign, r.done)

\* keys_fill_missing from virtual key i on. ret is the value returned; failed,
\* index and done are not part of the C result: whether an assignment was
\* refused, for which virtual key, and the assignments made.
RECURSIVE fill_from(_, _, _, _)
fill_from(t, i, assigned, done) ==
  IF i >= NBVKEYS
  THEN [t |-> t, ret |-> assigned, failed |-> FALSE, index |-> 0 - 1, done |-> done]
  ELSE IF t.keys[i] # <<>> THEN fill_from(t, i + 1, assigned, done)
  ELSE LET r == fill_keys(t, i, 1, 0, done)
       IN  IF r.failed
           THEN [t |-> r.t, ret |-> 0 - i, failed |-> TRUE, index |-> i,
                 done |-> r.done]
           ELSE fill_from(r.t, i + 1, assigned + r.assign, r.done)

\* Variant: the loop starts at the second virtual key.
keys_fill_missing_m(t) == fill_from(t, 1, 0, <<>>)

keys_fill_missing(t) == fill_from(t, 0, 0, <<>>)

\* ------------------------------------------------------------------ queries
keys_check_undefined(t) ==
  IF \E i \in VKeys : LLIST_FIRST_DATA(t.keys[i]) = NULL THEN 1 ELSE 0

\* Variant: the test of keys_check_undefined, on the data of the first item.
keys_check_missing_m(t) ==
  IF \E i \in VKeys : LLIST_FIRST_DATA(t.keys[i]) = NULL THEN 1 ELSE 0

keys_check_missing(t) ==
  IF \E i \in VKeys : t.keys[i] = <<>> THEN 1 ELSE 0

\* "UNDEFINED"
UNDEFINED == <<85, 78, 68, 69, 70, 73, 78, 69, 68>>

\* The LLIST_FOREACH loop of keys_action_allkeys from item n on:
\* string_catf(&keystr, "%s ", data) for each item.
RECURSIVE allkeys_cat(_, _)
allkeys_cat(l, n) ==
  IF n > Len(l) THEN <<>> ELSE l[n] \o <<32>> \o allkeys_cat(l, n + 1)

\* Formatting a null pointer with %s is undefined: keys_action_allkeys has a
\* defined result when the first item holds a null pointer (the loop is not
\* entered) or no item does.
allkeys_defined(t, action) ==
  \/ LLIST_FIRST_DATA(t.keys[action]) = NULL
  \/ \A n \in 1 .. Len(t.keys[action]) : t.keys[action][n] # NULL

\* The string keys_action_allkeys returns; NULL stands for no defined result.
keys_action_allkeys(t, action) ==
  IF LLIST_FIRST_DATA(t.keys[action]) = NULL THEN UNDEFINED
  ELSE IF allkeys_defined(t, action) THEN allkeys_cat(t.keys[action], 1)
  ELSE NULL

\* ---------------------------------------------------------- initial state
\* keys_get has not been called.
ReaderIdle ==
  /\ input = <<>>
  /\ pos = 0
  /\ prefix = FALSE
  /\ count = 0
  /\ reg = 0
  /\ kch = 0
  /\ nkeys = 0
  /\ result = 0
  /\ gpc = "off"

\* Nothing has been drawn, written or classified.
OutIdle ==
  /\ bar = [pc |-> "off"]
  /\ file = <<>>
  /\ path = [pc |-> "off"]
  /\ guard = [pc |-> "off"]

\* keys_init: "All keys unassigned."
Init ==
  /\ actions = [i \in 0 .. (KEY_MAX - 1) |-> KEY_UNDEF]
  /\ actions_ext = <<>>
  /\ keys = [i \in VKeys |-> <<>>]
  /\ past_end = Unread
  /\ oob = FALSE
  /\ fault = FALSE
  /\ undef = FALSE
  /\ last = [op |-> "init", key |-> 0, action |-> 0, ret |-> 0,
             failed |-> FALSE, index |-> 0 - 1]
  /\ bound = <<>>
  /\ nops = 0
  /\ code = 0
  /\ name = NULL
  /\ back = 0
  /\ pc = "table"
  /\ ReaderIdle
  /\ OutIdle

\* The table t becomes the state.
Install(t) ==
  /\ actions' = t.actions
  /\ actions_ext' = t.actions_ext
  /\ keys' = t.keys
  /\ past_end' = t.past_end
  /\ oob' = t.oob

\* bound without the assignments of key.
Unbind(b, key) == SelectSeq(b, LAMBDA e : e.key # key)

\* ---------------------------------------------------------------- actions
\* The tables a call with this key works on: a first use of index KEY_MAX
\* finds any content in the word after the array.
Seen(key) ==
  IF key = KEY_MAX /\ past_end = Unread
  THEN {[Table EXCEPT !.past_end = g] : g \in Garbage}
  ELSE {Table}

Assign(key, action) ==
  /\ ~fault
  /\ nops < MaxOps
  /\ \E t \in Seen(key) :
       LET r == keys_assign_binding(t, key, action)
       IN  /\ Install(r.t)
           /\ last' = [op |-> "assign", key |-> key, action |-> action,
                       ret |-> r.ret, failed |-> FALSE, index |-> 0 - 1]
           /\ bound' = IF r.ret = 0
                       THEN Append(bound, [key |-> key, action |-> action])
                       ELSE bound
  /\ nops' = nops + 1
  /\ UNCHANGED <<fault, undef, conv, reader, out>>

Remove(key, action) ==
  /\ ~fault
  /\ nops < MaxOps
  /\ \E o \in keys_remove_binding(Table, key, action) :
       /\ Install(o.t)
       /\ fault' = o.fault
       /\ undef' = (undef \/ o.undef)
  /\ last' = [op |-> "remove", key |-> key, action |-> action, ret |-> 0,
              failed |-> FALSE, index |-> 0 - 1]
  /\ bound' = Unbind(bound, key)
  /\ nops' = nops + 1
  /\ UNCHANGED <<conv, reader, out>>

FillMissing ==
  /\ ~fault
  /\ nops < MaxOps
  /\ LET r == keys_fill_missing(Table)
     IN  /\ Install(r.t)
         /\ last' = [op |-> "fill", key |-> 0, action |-> 0, ret |-> r.ret,
                     failed |-> r.failed, index |-> r.index]
         /\ bound' = bound \o r.done
  /\ nops' = nops + 1
  /\ UNCHANGED <<fault, undef, conv, reader, out>>

Next ==
  \/ \E key \in Keys, action \in Actions : Assign(key, action)
  \/ \E key \in Keys, action \in Actions : Remove(key, action)
  \/ FillMissing

Spec == Init /\ [][Next]_vars

\* ------------------------------------------------- converting key codes
\* Largest code point of the contiguous block of extended codes converted.
MaxCodepoint == 300

\* Code points with two-, three- and four-byte encodings, at the ends of each
\* length.
WideCodepoints == {2047, 2048, 8364, 65535, 65536, 128512, 1114111}

\* The codes converted: the whole array range, and codepoint + KEY_MAX.
NameCodes ==
  (0 .. (KEY_MAX - 1))
    \cup {KEY_MAX + c : c \in 0 .. MaxCodepoint}
    \cup {KEY_MAX + c : c \in WideCodepoints}

InitNames ==
  /\ actions = [i \in 0 .. (KEY_MAX - 1) |-> KEY_UNDEF]
  /\ actions_ext = <<>>
  /\ keys = [i \in VKeys |-> <<>>]
  /\ past_end = Unread
  /\ oob = FALSE
  /\ fault = FALSE
  /\ undef = FALSE
  /\ last = [op |-> "init", key |-> 0, action |-> 0, ret |-> 0,
             failed |-> FALSE, index |-> 0 - 1]
  /\ bound = <<>>
  /\ nops = 0
  /\ code \in NameCodes
  /\ name = NULL
  /\ back = 0
  /\ pc = "start"
  /\ ReaderIdle
  /\ OutIdle

table == <<actions, actions_ext, keys, past_end, oob, fault, undef, last, bound, nops>>

\* name = keys_int2str(code)
Int2Str ==
  /\ pc = "start"
  /\ name' = keys_int2str(code)
  /\ pc' = "named"
  /\ UNCHANGED <<code, back, table, reader, out>>

\* back = keys_str2int(name), for a name that is present
Str2Int ==
  /\ pc = "named"
  /\ name # NULL
  /\ back' = keys_str2int(name)
  /\ pc' = "done"
  /\ UNCHANGED <<code, name, table, reader, out>>

NextNames == Int2Str \/ Str2Int

SpecNames == InitNames /\ [][NextNames]_vars

\* ------------------------------------------------------------ reading keys
\* wgetch() when no input is available.
ERR == 0 - 1

\* '0', '1', '9', '"', 'a', 'z'
CH_0 == 48
CH_1 == 49
CH_9 == 57
CH_QUOTE == 34
CH_a == 97
CH_z == 122

\* The value of an int stored in a char, as the unsigned byte the UTF-8
\* functions work on.
Char(v) == v % 256

\* Half the range of the non-negative int values, 2^30.
INT_HALF == 1073741824

\* a + b in int arithmetic: two's complement, 32 bits, wrapping around.
Add32(a, b) ==
  IF a > 0 /\ b > 0 /\ a > ((INT_HALF - 1) + INT_HALF) - b
  THEN ((a - INT_HALF) - INT_HALF) + ((b - INT_HALF) - INT_HALF)
  ELSE IF a < 0 /\ b < 0 /\ a < ((0 - INT_HALF) - INT_HALF) - b
       THEN ((a + INT_HALF) + INT_HALF) + ((b + INT_HALF) + INT_HALF)
  ELSE a + b

\* Variant: nine times a.
Mul10_m(a) ==
  LET a2 == Add32(a, a)
      a4 == Add32(a2, a2)
      a8 == Add32(a4, a4)
  IN  Add32(a8, a)

\* a * 10 in the same arithmetic.
Mul10(a) ==
  LET a2 == Add32(a, a)
      a4 == Add32(a2, a2)
      a8 == Add32(a4, a4)
  IN  Add32(a8, a2)

\* wgetch(win): call number p + 1 on the input s; nothing is available once
\* the input is used up.
wgetch(s, p) == IF p < Len(s) THEN s[p + 1] ELSE ERR

\* Variant: the code point of a multi-byte character is returned as it is.
keys_wgetch_m(s, p) ==
  LET c == wgetch(s, p)
  IN  IF c = ERR THEN [ch |-> c, pos |-> p + 1]
      ELSE IF c >= KEY_MIN THEN [ch |-> c, pos |-> p + 1]
      ELSE IF UTF8_LENGTH(c) = 1 THEN [ch |-> c, pos |-> p + 1]
      ELSE LET len == UTF8_LENGTH(Char(c))
               buf == [i \in 1 .. len |->
                         IF i = 1 THEN Char(c) ELSE Char(wgetch(s, p + i - 1))]
           IN  [ch |-> utf8_decode(buf), pos |-> p + len]

\* keys_wgetch after p calls of wgetch: the key code and the calls made then.
keys_wgetch(s, p) ==
  LET c == wgetch(s, p)
  IN  IF c = ERR THEN [ch |-> c, pos |-> p + 1]
      ELSE IF c >= KEY_MIN THEN [ch |-> c, pos |-> p + 1]
      ELSE IF UTF8_LENGTH(c) = 1 THEN [ch |-> c, pos |-> p + 1]
      ELSE LET len == UTF8_LENGTH(Char(c))
               buf == [i \in 1 .. len |->
                         IF i = 1 THEN Char(c) ELSE Char(wgetch(s, p + i - 1))]
           IN  [ch |-> utf8_decode(buf) + KEY_MAX, pos |-> p + len]

\* One call of keys_wgetch by keys_get.
ReadKey(r) ==
  /\ kch' = r.ch
  /\ pos' = r.pos
  /\ nkeys' = nkeys + 1

\* keys_get up to the do loop, or to the single read without count and reg.
GetStart ==
  /\ gpc = "start"
  /\ IF prefix
     THEN /\ count' = 0
          /\ reg' = 0
          /\ kch' = CH_0
          /\ gpc' = "digits"
     ELSE /\ gpc' = "command"
          /\ UNCHANGED <<count, reg, kch>>
  /\ UNCHANGED <<input, pos, prefix, nkeys, result, table, conv, out>>

\* One turn of the do loop: accumulate, read, test.
GetDigit ==
  /\ gpc = "digits"
  /\ LET c == Add32(Add32(Mul10(count), kch), 0 - CH_0)
         r == keys_wgetch(input, pos)
     IN  /\ count' = c
         /\ ReadKey(r)
         /\ gpc' = IF (r.ch = CH_0 /\ c > 0) \/ (r.ch >= CH_1 /\ r.ch <= CH_9)
                   THEN "digits" ELSE "register"
  /\ UNCHANGED <<input, prefix, reg, result, table, conv, out>>

\* Variant: the letters select the registers from 1 on.
register_select_m(c, r) ==
  IF c >= CH_1 /\ c <= CH_9 THEN c - CH_1 + 1
  ELSE IF c >= CH_a /\ c <= CH_z THEN c - CH_a + 1
  ELSE r

\* *reg after the key c that follows the register prefix; r is *reg before.
register_select(c, r) ==
  IF c >= CH_1 /\ c <= CH_9 THEN c - CH_1 + 1
  ELSE IF c >= CH_a /\ c <= CH_z THEN c - CH_a + 10
  ELSE r

\* After the loop: the default count, and the register prefix with its
\* selector.
GetRegister ==
  /\ gpc = "register"
  /\ count' = IF count = 0 THEN 1 ELSE count
  /\ IF kch = CH_QUOTE
     THEN LET r == keys_wgetch(input, pos)
          IN  /\ ReadKey(r)
              /\ reg' = register_select(r.ch, reg)
              /\ gpc' = "command"
     ELSE /\ gpc' = "switch"
          /\ UNCHANGED <<kch, pos, nkeys, reg>>
  /\ UNCHANGED <<input, prefix, result, table, conv, out>>

\* ch = keys_wgetch(win) before the switch.
GetCommand ==
  /\ gpc = "command"
  /\ ReadKey(keys_wgetch(input, pos))
  /\ gpc' = "switch"
  /\ UNCHANGED <<input, prefix, count, reg, result, table, conv, out>>

\* Variant: every key code is looked up.
GetSwitch_m ==
  /\ gpc = "switch"
  /\ \E t \in Seen(kch) :
       /\ result' = keys_get_action(t, kch)
       /\ past_end' = t.past_end
       /\ oob' = (oob \/ kch = KEY_MAX)
  /\ gpc' = "done"
  /\ UNCHANGED <<actions, actions_ext, keys, fault, undef, last, bound, nops>>
  /\ UNCHANGED <<input, pos, prefix, count, reg, kch, nkeys, conv, out>>

\* The switch: KEY_RESIZE itself, or the virtual key of ch.
GetSwitch ==
  /\ gpc = "switch"
  /\ IF kch = KEY_RESIZE
     THEN /\ result' = KEY_RESIZE
          /\ UNCHANGED <<past_end, oob>>
     ELSE \E t \in Seen(kch) :
            /\ result' = keys_get_action(t, kch)
            /\ past_end' = t.past_end
            /\ oob' = (oob \/ kch = KEY_MAX)
  /\ gpc' = "done"
  /\ UNCHANGED <<actions, actions_ext, keys, fault, undef, last, bound, nops>>
  /\ UNCHANGED <<input, pos, prefix, count, reg, kch, nkeys, conv, out>>

\* The table keys_init leaves, as one value.
Fresh ==
  [actions |-> [i \in 0 .. (KEY_MAX - 1) |-> KEY_UNDEF], actions_ext |-> <<>>,
   keys |-> [i \in VKeys |-> <<>>], past_end |-> Unread, oob |-> FALSE]

\* The table with the default bindings.
Filled == keys_fill_missing(Fresh).t

\* The default bindings and three more: the resize code and U+00E9 for
\* generic-quit, U+00FF for generic-cancel.
Custom ==
  keys_assign_binding(
    keys_assign_binding(keys_assign_binding(Filled, KEY_RESIZE, 4).t,
                        KEY_MAX + 233, 4).t,
    KEY_MAX + 255, 0).t

\* The binding tables keys are read with.
ReaderTables == {Filled, Custom}

\* The state holds the table t, just loaded.
TableIs(t) ==
  /\ actions = t.actions
  /\ actions_ext = t.actions_ext
  /\ keys = t.keys
  /\ past_end = t.past_end
  /\ oob = t.oob
  /\ fault = FALSE
  /\ undef = FALSE
  /\ last = [op |-> "init", key |-> 0, action |-> 0, ret |-> 0,
             failed |-> FALSE, index |-> 0 - 1]
  /\ bound = <<>>
  /\ nops = 0

\* No key code is being converted.
ConvIdle ==
  /\ code = 0
  /\ name = NULL
  /\ back = 0
  /\ pc = "table"

\* Longest run of digits at the start of the input.
MaxDigits == 2

\* Runs of the digits '0', '1', '9' of length n.
RECURSIVE DigitRuns(_)
DigitRuns(n) ==
  IF n = 0 THEN {<<>>}
  ELSE {<<d>> \o w : d \in {CH_0, CH_1, CH_9}, w \in DigitRuns(n - 1)}

\* What follows the digits: nothing, or the register prefix with any unit.
RegisterParts ==
  {<<>>, <<CH_QUOTE>>}
    \cup {<<CH_QUOTE, u>> :
            u \in {CH_1, CH_9, CH_a, CH_z, CH_0, 113, 65, ERR, KEY_RESIZE, CH_QUOTE}}

\* The end of the input: single units, the encodings of U+00E9, U+20AC and
\* U+1F600, and encodings cut short or interrupted by a failed read.
CommandParts ==
  {<<>>, <<113>>, <<CH_0>>, <<27>>, <<KEY_RESIZE>>, <<ERR>>, <<ERR, 113>>,
   <<195, 169>>, <<195>>, <<195, ERR>>, <<195, ERR, 113>>, <<169>>,
   <<226, 130, 172>>, <<226, 130>>, <<226, ERR, 172>>,
   <<240, 159, 152, 128>>, <<240, 159, 152, ERR>>}

\* The inputs keys_get reads.
Inputs ==
  {d \o r \o c : d \in UNION {DigitRuns(n) : n \in 0 .. MaxDigits},
                 r \in RegisterParts, c \in CommandParts}

InitInput ==
  /\ \E t \in ReaderTables : TableIs(t)
  /\ ConvIdle
  /\ OutIdle
  /\ input \in Inputs
  /\ prefix \in BOOLEAN
  /\ pos = 0
  /\ count = 0
  /\ reg = 0
  /\ kch = 0
  /\ nkeys = 0
  /\ result = 0
  /\ gpc = "start"

NextInput == GetStart \/ GetDigit \/ GetRegister \/ GetCommand \/ GetSwitch

SpecInput == InitInput /\ [][NextInput]_vars

\* ------------------------------------------------------------ bindings bar
\* enum vkey: the virtual key of keydef[14], "generic-other-cmd".
KEY_GENERIC_OTHER_CMD == 14

\* MIN(a, b)
MIN(a, b) == IF a < b THEN a ELSE b

\* Variant: the last slot of a full page is always the other-cmd entry.
bar_binding_key_m(bindings, cnt, page_base, page_size, i) ==
  IF i < page_size - 1
  THEN bindings[page_base + i + 1]
  ELSE KEY_GENERIC_OTHER_CMD

\* binding_key of slot i; page_size is the one already cut to the bindings
\* left, and bindings[j] of the C array is bindings[j + 1] here.
bar_binding_key(bindings, cnt, page_base, page_size, i) ==
  IF i < page_size - 1 \/ page_base + i = cnt - 1
  THEN bindings[page_base + i + 1]
  ELSE KEY_GENERIC_OTHER_CMD

\* The slots the loop draws from slot i on: where the key goes and the
\* binding shown. cmd_len is KEYS_KEYLEN + KEYS_LABELEN + 1 + padding, that
\* is (col * 2) / page_size.
RECURSIVE bar_slots(_, _, _, _, _, _)
bar_slots(bindings, cnt, page_base, page_size, cols, i) ==
  IF i < page_size /\ page_base + i < cnt
  THEN <<[key_pos_x |-> (i \div 2) * ((cols * 2) \div page_size),
          key_pos_y |-> i % 2,
          binding_key |-> bar_binding_key(bindings, cnt, page_base, page_size, i)]>>
         \o bar_slots(bindings, cnt, page_base, page_size, cols, i + 1)
  ELSE <<>>

\* What keys_display_bindings_bar draws on a screen of cols columns.
keys_display_bindings_bar(bindings, cnt, page_base, page_size, cols) ==
  bar_slots(bindings, cnt, page_base, MIN(page_size, cnt - page_base), cols, 0)

\* Largest number of bindings of a screen and largest page size.
MaxBindings == 7
MaxPage == 5

\* The binding arrays of cnt entries: panel commands, and generic commands
\* ending with other-cmd itself.
BarBindings(cnt) ==
  {[j \in 1 .. cnt |-> 20 + j],
   [j \in 1 .. cnt |-> IF j = cnt THEN KEY_GENERIC_OTHER_CMD ELSE j - 1]}

\* Screen widths.
BarCols == {80, 132}

InitBar ==
  /\ TableIs(Filled)
  /\ ConvIdle
  /\ ReaderIdle
  /\ file = <<>>
  /\ path = [pc |-> "off"]
  /\ guard = [pc |-> "off"]
  /\ \E cnt \in 1 .. MaxBindings, page_base \in 0 .. (MaxBindings - 1),
        page_size \in 1 .. MaxPage, cols \in BarCols :
       /\ page_base < cnt
       /\ \E bindings \in BarBindings(cnt) :
            bar = [pc |-> "call", bindings |-> bindings, count |-> cnt,
                   page_base |-> page_base, page_size |-> page_size,
                   col |-> cols, slots |-> <<>>]

\* One call of keys_display_bindings_bar.
DisplayBar ==
  /\ bar.pc = "call"
  /\ bar' = [bar EXCEPT
               !.pc = "drawn",
               !.slots = keys_display_bindings_bar(
                           bar.bindings, bar.count, bar.page_base,
                           bar.page_size, bar.col)]
  /\ UNCHANGED <<table, conv, reader, file, path, guard>>

NextBar == DisplayBar

SpecBar == InitBar /\ [][NextBar]_vars

\* ------------------------------------------------------------------ saving
\* keydef[].label
keydef_label ==
  <<
    <<103,101,110,101,114,105,99,45,99,97,110,99,101,108>>,   \* 0: "generic-cancel"
    <<103,101,110,101,114,105,99,45,115,101,108,101,99,116>>,   \* 1: "generic-select"
    <<103,101,110,101,114,105,99,45,99,114,101,100,105,116,115>>,   \* 2: "generic-credits"
    <<103,101,110,101,114,105,99,45,104,101,108,112>>,   \* 3: "generic-help"
    <<103,101,110,101,114,105,99,45,113,117,105,116>>,   \* 4: "generic-quit"
    <<103,101,110,101,114,105,99,45,115,97,118,101>>,   \* 5: "generic-save"
    <<103,101,110,101,114,105,99,45,114,101,108,111,97,100>>,   \* 6: "generic-reload"
    <<103,101,110,101,114,105,99,45,99,111,112,121>>,   \* 7: "generic-copy"
    <<103,101,110,101,114,105,99,45,112,97,115,116,101>>,   \* 8: "generic-paste"
    <<103,101,110,101,114,105,99,45,99,104,97,110,103,101,45,118,105,101,119>>,   \* 9: "generic-change-view"
    <<103,101,110,101,114,105,99,45,112,114,101,118,45,118,105,101,119>>,   \* 10: "generic-prev-view"
    <<103,101,110,101,114,105,99,45,105,109,112,111,114,116>>,   \* 11: "generic-import"
    <<103,101,110,101,114,105,99,45,101,120,112,111,114,116>>,   \* 12: "generic-export"
    <<103,101,110,101,114,105,99,45,103,111,116,111>>,   \* 13: "generic-goto"
    <<103,101,110,101,114,105,99,45,111,116,104,101,114,45,99,109,100>>,   \* 14: "generic-other-cmd"
    <<103,101,110,101,114,105,99,45,99,111,110,102,105,103,45,109,101,110,117>>,   \* 15: "generic-config-menu"
    <<103,101,110,101,114,105,99,45,114,101,100,114,97,119>>,   \* 16: "generic-redraw"
    <<103,101,110,101,114,105,99,45,97,100,100,45,97,112,112,116>>,   \* 17: "generic-add-appt"
    <<103,101,110,101,114,105,99,45,97,100,100,45,116,111,100,111>>,   \* 18: "generic-add-todo"
    <<103,101,110,101,114,105,99,45,112,114,101,118,45,100,97,121>>,   \* 19: "generic-prev-day"
    <<103,101,110,101,114,105,99,45,110,101,120,116,45,100,97,121>>,   \* 20: "generic-next-day"
    <<103,101,110,101,114,105,99,45,112,114,101,118,45,119,101,101,107>>,   \* 21: "generic-prev-week"
    <<103,101,110,101,114,105,99,45,110,101,120,116,45,119,101,101,107>>,   \* 22: "generic-next-week"
    <<103,101,110,101,114,105,99,45,112,114,101,118,45,109,111,110,116,104>>,   \* 23: "generic-prev-month"
    <<103,101,110,101,114,105,99,45,110,101,120,116,45,109,111,110,116,104>>,   \* 24: "generic-next-month"
    <<103,101,110,101,114,105,99,45,112,114,101,118,45,121,101,97,114>>,   \* 25: "generic-prev-year"
    <<103,101,110,101,114,105,99,45,110,101,120,116,45,121,101,97,114>>,   \* 26: "generic-next-year"
    <<103,101,110,101,114,105,99,45,115,99,114,111,108,108,45,100,111,119,110>>,   \* 27: "generic-scroll-down"
    <<103,101,110,101,114,105,99,45,115,99,114,111,108,108,45,117,112>>,   \* 28: "generic-scroll-up"
    <<103,101,110,101,114,105,99,45,103,111,116,111,45,116,111,100,97,121>>,   \* 29: "generic-goto-today"
    <<103,101,110,101,114,105,99,45,99,111,109,109,97,110,100>>,   \* 30: "generic-command"
    <<109,111,118,101,45,114,105,103,104,116>>,   \* 31: "move-right"
    <<109,111,118,101,45,108,101,102,116>>,   \* 32: "move-left"
    <<109,111,118,101,45,100,111,119,110>>,   \* 33: "move-down"
    <<109,111,118,101,45,117,112>>,   \* 34: "move-up"
    <<115,116,97,114,116,45,111,102,45,119,101,101,107>>,   \* 35: "start-of-week"
    <<101,110,100,45,111,102,45,119,101,101,107>>,   \* 36: "end-of-week"
    <<97,100,100,45,105,116,101,109>>,   \* 37: "add-item"
    <<100,101,108,45,105,116,101,109>>,   \* 38: "del-item"
    <<101,100,105,116,45,105,116,101,109>>,   \* 39: "edit-item"
    <<118,105,101,119,45,105,116,101,109>>,   \* 40: "view-item"
    <<112,105,112,101,45,105,116,101,109>>,   \* 41: "pipe-item"
    <<102,108,97,103,45,105,116,101,109>>,   \* 42: "flag-item"
    <<114,101,112,101,97,116>>,   \* 43: "repeat"
    <<101,100,105,116,45,110,111,116,101>>,   \* 44: "edit-note"
    <<118,105,101,119,45,110,111,116,101>>,   \* 45: "view-note"
    <<114,97,105,115,101,45,112,114,105,111,114,105,116,121>>,   \* 46: "raise-priority"
    <<108,111,119,101,114,45,112,114,105,111,114,105,116,121>>   \* 47: "lower-priority"
  >>

\* The lines dump_intro writes (without their newlines).
dump_intro ==
  <<
    <<35>>,
    <<35,32,67,97,108,99,117,114,115,101,32,107,101,121,115,32,99,111,110,102,105,103,117,114,97,116,105,111,110,32,102,105,108,101>>,
    <<35>>,
    <<35,32,73,110,32,116,104,105,115,32,102,105,108,101,32,116,104,101,32,107,101,121,98,105,110,100,105,110,103,115,32,117,115,101,100,32,98,121,32,67,97,108,99,117,114,115,101,32,97,114,101,32,100,101,102,105,110,101,100,46>>,
    <<35,32,73,116,32,105,115,32,103,101,110,101,114,97,116,101,100,32,97,117,116,111,109,97,116,105,99,97,108,108,121,32,98,121,32,67,97,108,99,117,114,115,101,32,97,110,100,32,105,115,32,109,97,105,110,116,97,105,110,101,100>>,
    <<35,32,118,105,97,32,116,104,101,32,107,101,121,32,99,111,110,102,105,103,117,114,97,116,105,111,110,32,109,101,110,117,32,111,102,32,116,104,101,32,105,110,116,101,114,97,99,116,105,118,101,32,117,115,101,114>>,
    <<35,32,105,110,116,101,114,102,97,99,101,46,32,73,116,32,115,104,111,117,108,100,32,110,111,116,32,98,101,32,101,100,105,116,101,100,32,100,105,114,101,99,116,108,121,46>>,
    <<>>
  >>

\* "(null)": what the C library prints for a null pointer given to %s when
\* it prints anything.
NULL_TEXT == <<40, 110, 117, 108, 108, 41>>

\* keys_action_allkeys on a list with an item without data after the first,
\* from item n on, when the C library prints "(null)".
RECURSIVE allkeys_cat_null(_, _)
allkeys_cat_null(l, n) ==
  IF n > Len(l) THEN <<>>
  ELSE (IF l[n] = NULL THEN NULL_TEXT ELSE l[n]) \o <<32>>
         \o allkeys_cat_null(l, n + 1)

\* The line fprintf(fd, "%s  %s\n", keydef[i].label, keys) writes.
save_line(t, i) ==
  keydef_label[i + 1] \o <<32, 32>>
    \o (IF allkeys_defined(t, i) THEN keys_action_allkeys(t, i)
        ELSE allkeys_cat_null(t.keys[i], 1))

\* keys_save_bindings: the lines written up to virtual key n - 1.
save_lines(t, n) == dump_intro \o [i \in 1 .. n |-> save_line(t, i - 1)]

\* What a call of keys_save_bindings does: it writes every line, or, on a
\* list with a null pointer among the names, it may die at its line.
keys_save_bindings(t) ==
  {[file |-> save_lines(t, NBVKEYS), fault |-> FALSE,
    undef |-> \E i \in VKeys : ~allkeys_defined(t, i)]}
    \cup {[file |-> save_lines(t, i), fault |-> TRUE, undef |-> TRUE] :
             i \in {j \in VKeys : ~allkeys_defined(t, j)}}

\* One call of keys_save_bindings, on the table as the calls before left it.
SaveBindings ==
  /\ ~fault
  /\ nops < MaxOps
  /\ \E o \in keys_save_bindings(Table) :
       /\ file' = o.file
       /\ fault' = o.fault
       /\ undef' = (undef \/ o.undef)
  /\ last' = [op |-> "save", key |-> 0, action |-> 0, ret |-> 0,
              failed |-> FALSE, index |-> 0 - 1]
  /\ nops' = nops + 1
  /\ UNCHANGED <<actions, actions_ext, keys, past_end, oob, bound>>
  /\ UNCHANGED <<conv, reader, bar, path, guard>>

NextSave == Next \/ SaveBindings

SpecSave == Init /\ [][NextSave]_vars

\* ------------------------------------------------- array or list, per call
\* Which of the two constructions a call uses for a key code: "dense" is the
\* array indexed by the code (actions[], keynames[]), "extended" the part for
\* codes above the curses range (actions_ext, utf8_encode), "none" neither.

\* keys_get_action: pressed < 0, pressed > KEY_MAX, else actions[pressed].
lookup_path(pressed) ==
  IF pressed < 0 THEN "none"
  ELSE IF pressed > KEY_MAX THEN "extended"
  ELSE "dense"

\* keys_assign_binding: key > KEY_MAX, else key > -1 with actions[key].
assign_path(key) ==
  IF key > KEY_MAX THEN "extended"
  ELSE IF key > 0 - 1 THEN "dense"
  ELSE "none"

\* keys_remove_binding: key < 0, key <= KEY_MAX with actions[key], else list.
remove_path(key) ==
  IF key < 0 THEN "none"
  ELSE IF key <= KEY_MAX THEN "dense"
  ELSE "extended"

\* keys_int2str: key == -1, key < KEY_MAX with keynames[key], else
\* utf8_encode(key - KEY_MAX).
name_path(key) ==
  IF key = 0 - 1 THEN "none"
  ELSE IF key < KEY_MAX THEN "dense"
  ELSE "extended"

\* The key codes the four calls are made with.
RangeCodes == (0 - 1) .. (KEY_MAX + MaxCodepoint)

InitRange ==
  /\ TableIs(Fresh)
  /\ ConvIdle
  /\ ReaderIdle
  /\ bar = [pc |-> "off"]
  /\ file = <<>>
  /\ guard = [pc |-> "off"]
  /\ \E k \in RangeCodes :
       path = [pc |-> "call", key |-> k, lookup |-> "", assign |-> "",
               remove |-> "", name |-> ""]

\* keys_get_action, keys_assign_binding, keys_remove_binding and
\* keys_int2str each choose their branch for the key code.
ChoosePaths ==
  /\ path.pc = "call"
  /\ path' = [path EXCEPT
                !.pc = "done",
                !.lookup = lookup_path(path.key),
                !.assign = assign_path(path.key),
                !.remove = remove_path(path.key),
                !.name = name_path(path.key)]
  /\ UNCHANGED <<table, conv, reader, bar, file, guard>>

NextRange == ChoosePaths

SpecRange == InitRange /\ [][NextRange]_vars


\* ------------------------------------------- calls with a virtual key argument
\* The argument has type enum vkey. Whether that type is signed is the
\* compiler's choice; sgn tells which. With an unsigned type a negative
\* argument is a value above every enumerator.

\* key < 0
vkey_negative(key, sgn) == sgn /\ key < 0

\* key > NBVKEYS
vkey_above(key, sgn) == key > NBVKEYS \/ (~sgn /\ key < 0)

\* What a call does with its argument: it exits with "FATAL ERROR: key value
\* out of bounds", it returns at once, or it goes on to use the argument as
\* index into keydef[] or keys[].
Exits == [out |-> "exit", index |-> 0]
Returns == [out |-> "return", index |-> 0]
Indexes(key) == [out |-> "index", index |-> key]

\* EXIT_IF(key < 0 || key > NBVKEYS, ...); return keydef[key].label;
keys_get_label_vkey(key, sgn) ==
  IF vkey_negative(key, sgn) \/ vkey_above(key, sgn) THEN Exits
  ELSE Indexes(key)

\* EXIT_IF(key < 0 || key > NBVKEYS, ...); return keydef[key].binding;
keys_get_binding_vkey(key, sgn) ==
  IF vkey_negative(key, sgn) \/ vkey_above(key, sgn) THEN Exits
  ELSE Indexes(key)

\* add_key_str: if (action > NBVKEYS) return; then keys[action].
add_key_str_vkey(action, sgn) ==
  IF vkey_above(action, sgn) THEN Returns ELSE Indexes(action)

\* del_key_str: if (action > NBVKEYS) return; then keys[action].
del_key_str_vkey(action, sgn) ==
  IF vkey_above(action, sgn) THEN Returns ELSE Indexes(action)

\* keys_popup_info: if (key > NBVKEYS) return; then keydef[key], info[key].
keys_popup_info_vkey(key, sgn) ==
  IF vkey_above(key, sgn) THEN Returns ELSE Indexes(key)

GuardedCalls ==
  {"keys_get_label", "keys_get_binding", "add_key_str", "del_key_str",
   "keys_popup_info"}

\* The arguments of the calls: every virtual key, the values after the last
\* one and a negative value.
VkeyArgs == (0 - 1) .. (NBVKEYS + 2)

InitGuard ==
  /\ TableIs(Fresh)
  /\ ConvIdle
  /\ ReaderIdle
  /\ bar = [pc |-> "off"]
  /\ file = <<>>
  /\ path = [pc |-> "off"]
  /\ \E f \in GuardedCalls, a \in VkeyArgs, sgn \in BOOLEAN :
       guard = [pc |-> "call", fn |-> f, arg |-> a, signed |-> sgn,
                did |-> Returns]

\* One of the five calls tests its argument.
TestVkey ==
  /\ guard.pc = "call"
  /\ guard' = [guard EXCEPT
                 !.pc = "done",
                 !.did = CASE guard.fn = "keys_get_label" ->
                                keys_get_label_vkey(guard.arg, guard.signed)
                           [] guard.fn = "keys_get_binding" ->
                                keys_get_binding_vkey(guard.arg, guard.signed)
                           [] guard.fn = "add_key_str" ->
                                add_key_str_vkey(guard.arg, guard.signed)
                           [] guard.fn = "del_key_str" ->
                                del_key_str_vkey(guard.arg, guard.signed)
                           [] OTHER ->
                                keys_popup_info_vkey(guard.arg, guard.signed)]
  /\ UNCHANGED <<table, conv, reader, bar, file, path>>

NextGuard == TestVkey

SpecGuard == InitGuard /\ [][NextGuard]_vars


\* ------------------------------------------------------- long repeat counts
\* Longest run of one digit at the start of the input.
MaxRun == 11

\* The digit d, n times.
DigitRun(d, n) == [i \in 1 .. n |-> d]

\* Inputs that start with a long count: a run of one digit 1-9, then the
\* command key 'q', with or without a register before it.
LongInputs ==
  {DigitRun(d, n) \o r \o <<113>> :
     d \in CH_1 .. CH_9, n \in 1 .. MaxRun,
     r \in {<<>>, <<CH_QUOTE, CH_9>>, <<CH_QUOTE, CH_z>>}}

InitCount ==
  /\ TableIs(Filled)
  /\ ConvIdle
  /\ OutIdle
  /\ input \in LongInputs
  /\ prefix \in BOOLEAN
  /\ pos = 0
  /\ count = 0
  /\ reg = 0
  /\ kch = 0
  /\ nkeys = 0
  /\ result = 0
  /\ gpc = "start"

SpecCount == InitCount /\ [][NextInput]_vars


\* ---------------------------------------------------------------- claims
\* The three states of a virtual key's forward list.
Configured(l) == l # <<>> /\ l[1] # NULL
ExplicitlyUndefined(l) == l = <<NULL>>
Missing(l) == Len(l) = 0

\* A code of the array range or above it that keys_int2str names.
NamedKey(k) == k >= 0 /\ k # KEY_MAX /\ keys_int2str(k) # NULL

\* The codes that can be bound: those the calls use and every default.
BindableKeys ==
  Keys \cup UNION {{keydef_codes[v][n] : n \in 1 .. Len(keydef_codes[v])} : v \in VKeys}

\* k has an entry in actions[] or in actions_ext.
InReverseMap(k) ==
  IF k < KEY_MAX THEN actions[k] # KEY_UNDEF
  ELSE key_ext_find(actions_ext, k) # 0

\* The virtual keys whose forward list holds the name of k.
Owners(k) ==
  {v \in VKeys : \E n \in 1 .. Len(keys[v]) : keys[v][n] = keys_int2str(k)}

\* C1: after any sequence of assign, remove and fill_missing calls, a named
\* key code is in the reverse map if and only if its name is in the forward
\* list of exactly one virtual key, the one the reverse map gives for it.
C1_ReverseForwardConsistent ==
  ~undef =>
    \A k \in BindableKeys :
      NamedKey(k) =>
        /\ InReverseMap(k) <=> \E v \in VKeys : Owners(k) = {v}
        /\ InReverseMap(k) => Owners(k) = {keys_get_action(Table, k)}

\* The assignments of key that succeeded and have not been removed since.
BoundTo(key) == {bound[n].action : n \in {m \in 1 .. Len(bound) : bound[m].key = key}}

\* An assign call of k when an earlier call assigned k and none removed it.
AssignOfBound(k) ==
  /\ nops' = nops + 1
  /\ last'.op = "assign"
  /\ last'.key = k
  /\ BoundTo(k) # {}

\* C2: once assign(k, v1) has succeeded and k has not been removed,
\* assign(k, v2), for v2 equal to v1 or not, returns 1 (conflict), changes
\* neither the reverse map nor any forward list, and the lookup of k still
\* gives v1. For k = KEY_MAX the reverse map entry is the word after actions[].
C2_Step ==
  \A k \in Keys :
    AssignOfBound(k) =>
      /\ last'.ret = 1
      /\ actions' = actions
      /\ actions_ext' = actions_ext
      /\ keys' = keys
      /\ BoundTo(k) = {keys_get_action(Table, k)}
      /\ keys_get_action(Table, k)' = keys_get_action(Table, k)

C2_SecondAssignConflicts == [][C2_Step]_vars

\* A code of the array range and one of the extended range were each refused
\* for a virtual key, the first for the one that has it, the second for
\* another one.
C2_Witness ==
  /\ last.op = "assign"
  /\ last.ret = 1
  /\ last.key > KEY_MAX
  /\ BoundTo(last.key) = {keys_get_action(Table, last.key)}
  /\ last.action \notin BoundTo(last.key)
  /\ \E k \in 1 .. (KEY_MAX - 1) : last.action \in BoundTo(k)

\* No virtual key is given for k by the reverse map.
Unbound(k) == keys_get_action(Table, k) = KEY_UNDEF

\* The one of the three states the forward list l is in.
StateOf(l) ==
  IF Missing(l) THEN "missing"
  ELSE IF ExplicitlyUndefined(l) THEN "undefined"
  ELSE "configured"

\* A remove call of the named code k for v when k is not bound.
RemoveOfUnbound(k, v) ==
  /\ NamedKey(k)
  /\ nops' = nops + 1
  /\ last'.op = "remove"
  /\ last'.key = k
  /\ last'.action = v
  /\ Unbound(k)

\* C3: remove(k, v) of a key code k that is not bound completes without
\* fault, changes neither the reverse map nor any forward list, and leaves
\* v configured, explicitly undefined or missing as it was.
C3_Step ==
  \A k \in Keys, v \in Actions :
    RemoveOfUnbound(k, v) =>
      /\ ~fault'
      /\ actions' = actions
      /\ actions_ext' = actions_ext
      /\ keys' = keys
      /\ StateOf(keys'[v]) = StateOf(keys[v])

C3_RemoveUnboundNoOp == [][C3_Step]_vars

\* C4: from every state of the table, for every unbound key code k and
\* every virtual key v, whichever of the three states v is in, assign(k, v)
\* followed by remove(k, v) ends without fault with the reverse map and every
\* forward list as they were before the assign.
C4_AssignRemoveRestores ==
  ~undef =>
    \A k \in Keys, v \in Actions :
      (NamedKey(k) /\ Unbound(k)) =>
        LET r == keys_assign_binding(Table, k, v)
        IN  r.ret = 0 =>
              \A o \in keys_remove_binding(r.t, k, v) :
                /\ ~o.fault
                /\ o.t.actions = actions
                /\ o.t.actions_ext = actions_ext
                /\ o.t.keys = keys

\* C5: when a default assignment is refused, the value keys_fill_missing
\* returns is the negated index of the virtual key it was for, and is none
\* of the values returned on success, the counts 0 .. NBVKEYS.
C5_FailureTellsIndex ==
  (last.op = "fill" /\ last.failed) =>
    /\ 0 - last.ret = last.index
    /\ last.ret \notin 0 .. NBVKEYS

\* The call made so far is one keys_fill_missing, on the table of keys_init.
FilledFresh == last.op = "fill" /\ nops = 1

\* C6: keys_fill_missing on the table of keys_init meets no conflict, returns
\* NBVKEYS, leaves no virtual key missing, and gives every virtual key the
\* keys of its keydef[] binding: the lookup of each gives that virtual key
\* and its forward list holds their names in the order of the binding.
C6_FillFreshTable ==
  FilledFresh =>
    /\ ~last.failed
    /\ last.ret = NBVKEYS
    /\ keys_check_missing(Table) = 0
    /\ \A v \in VKeys :
         /\ keys[v] # <<>>
         /\ Len(keydef_codes[v]) >= 1
         /\ \A n \in 1 .. Len(keydef_codes[v]) :
              keys_get_action(Table, keydef_codes[v][n]) = v
         /\ keys[v] = [n \in 1 .. Len(keydef_codes[v]) |->
                         keys_int2str(keydef_codes[v][n])]
         /\ keys_action_allkeys(Table, v) = keydef_binding[v + 1] \o <<SPACE>>

C6_Witness ==
  /\ FilledFresh
  /\ last.ret = NBVKEYS
  /\ keys[4] = <<<<113>>, <<81>>>>
  /\ keys_get_action(Table, 81) = 4

\* C7: keys_check_undefined returns true exactly when the forward list of
\* some virtual key starts with the sentinel (explicitly undefined); missing
\* and configured virtual keys do not make it true.
C7_CheckUndefinedExact ==
  keys_check_undefined(Table) = 1 <=>
    \E v \in VKeys : keys[v] # <<>> /\ keys[v][1] = NULL

\* C8: keys_check_missing returns true exactly when the forward list of some
\* virtual key has no item: it is true after keys_init, false after
\* keys_fill_missing on that table, and a list holding only the sentinel
\* does not make it true.
C8_CheckMissingExact ==
  /\ keys_check_missing(Table) = 1 <=> \E v \in VKeys : Missing(keys[v])
  /\ nops = 0 => keys_check_missing(Table) = 1
  /\ FilledFresh => keys_check_missing(Table) = 0
  /\ (\A v \in VKeys : Configured(keys[v]) \/ ExplicitlyUndefined(keys[v]))
       => keys_check_missing(Table) = 0

\* Some virtual key is explicitly undefined, none is missing, and
\* keys_check_missing returns false.
C8_Witness ==
  /\ \E v \in VKeys : ExplicitlyUndefined(keys[v])
  /\ \A v \in VKeys : ~Missing(keys[v])
  /\ keys_check_missing(Table) = 0
  /\ last.op = "fill"

\* C9: for every key code k of the ordinary, pseudo-key and extended ranges
\* whose name keys_int2str(k) is present (and not the empty string),
\* keys_str2int gives k back for it.
C9_NameRoundTrip == (pc = "done" /\ name # <<>>) => back = code

\* The extended codes whose name is empty (code point 0) or is the name of
\* the ordinary key with the same code point (33 .. 126).
NameShadowed(k) ==
  k >= KEY_MAX /\ (k - KEY_MAX = 0 \/ k - KEY_MAX \in 33 .. 126)

\* C9, amended: the round trip holds for every named code of the array range
\* and every extended code but those of code point 0 and 33 .. 126; these
\* are read back as the first unnamed pseudo code and as the ordinary code
\* of the same code point.
C9_NameRoundTripAmended ==
  pc = "done" =>
    IF NameShadowed(code)
    THEN back = (IF code = KEY_MAX
                 THEN Min({i \in KEY_MIN .. (KEY_MAX - 1) : keynames[i] = <<>>})
                 ELSE code - KEY_MAX)
    ELSE back = code

\* Codes of each range went through the round trip: a multi-byte extended
\* code here, with the name read back as the code.
C9_Witness ==
  /\ pc = "done"
  /\ code > KEY_MAX + 127
  /\ Len(name) >= 2
  /\ back = code

\* The assignments to v that succeeded and have not been removed since, in
\* the order they were made.
BoundOf(v) == SelectSeq(bound, LAMBDA e : e.action = v)

\* The names of the keys of the assignments b, each followed by one space.
NamesOf(b) == allkeys_cat([n \in 1 .. Len(b) |-> keys_int2str(b[n].key)], 1)

\* C10: keys_action_allkeys(v) is the names of the keys bound to v, in the
\* order they were assigned, each followed by one space; when no key is
\* bound to v it is UNDEFINED, and after a remove for v that leaves it no
\* key, v is explicitly undefined. Stated for runs that assigned only named
\* key codes and compared no null pointer.
C10_AllKeysListsBound ==
  (~undef /\ \A n \in 1 .. Len(bound) : NamedKey(bound[n].key)) =>
    \A v \in Actions :
      /\ BoundOf(v) # <<>> => keys_action_allkeys(Table, v) = NamesOf(BoundOf(v))
      /\ BoundOf(v) = <<>> => keys_action_allkeys(Table, v) = UNDEFINED
      /\ (BoundOf(v) = <<>> /\ last.op = "remove" /\ last.action = v)
           => ExplicitlyUndefined(keys[v])

\* The first n keys keys_wgetch gives when called again and again from the
\* state after p calls of wgetch.
RECURSIVE KeysFrom(_, _, _)
KeysFrom(s, p, n) ==
  IF n = 0 THEN <<>>
  ELSE LET r == keys_wgetch(s, p)
       IN  <<r.ch>> \o KeysFrom(s, r.pos, n - 1)

\* The keys of the input, followed by failed reads.
Decoded == KeysFrom(input, 0, Len(input) + 3)

IsDigit(c) == c >= CH_0 /\ c <= CH_9

\* Length of the count at the start of the keys k: a digit 1-9 and the
\* digits after it; 0 when the first key is no digit 1-9.
CountLen(k) ==
  IF k[1] >= CH_1 /\ k[1] <= CH_9
  THEN Min({n \in 1 .. (Len(k) - 1) : ~IsDigit(k[n + 1])})
  ELSE 0

\* The decimal value of the first n keys of k.
RECURSIVE Decimal(_, _)
Decimal(k, n) == IF n = 0 THEN 0 ELSE Decimal(k, n - 1) * 10 + (k[n] - CH_0)

\* lookup(c) in the table keys are read with.
Lookup(c) == keys_get_action(Table, c)

\* The command key c resolved: lookup(c), or the resize signal for the
\* resize code.
Resolved(c) == IF c = KEY_RESIZE THEN KEY_RESIZE ELSE Lookup(c)

\* keys_get has returned, called with count and reg.
GotWithPrefix == gpc = "done" /\ prefix

\* C11: with prefix parsing, for an input of n >= 1 digits, the first 1-9,
\* followed by a key c that is no digit and not the register prefix, keys_get
\* returns the decimal value as count, register 0 and c resolved; when the
\* first key is no digit 1-9 the count is 1, that key is the command key and
\* no further key is read.
C11_CountThenCommand ==
  GotWithPrefix =>
    LET k == Decoded
        n == CountLen(k)
    IN  IF n >= 1
        THEN k[n + 1] # CH_QUOTE =>
               /\ count = Decimal(k, n)
               /\ reg = 0
               /\ result = Resolved(k[n + 1])
        ELSE /\ count = 1
             /\ result = Resolved(k[1])
             /\ nkeys = 1

\* C11, amended: as C11, but a first key that is the register prefix is not
\* the command key and is excepted from the second part; after a count, the
\* keys read are the digits and the command key.
C11_CountThenCommandAmended ==
  GotWithPrefix =>
    LET k == Decoded
        n == CountLen(k)
    IN  IF n >= 1
        THEN k[n + 1] # CH_QUOTE =>
               /\ count = Decimal(k, n)
               /\ reg = 0
               /\ result = Resolved(k[n + 1])
               /\ nkeys = n + 1
        ELSE k[1] # CH_QUOTE =>
               /\ count = 1
               /\ reg = 0
               /\ result = Resolved(k[1])
               /\ nkeys = 1

\* The input "19q" gave count 19, register 0 and generic-quit.
C11_Witness ==
  /\ GotWithPrefix
  /\ input = <<CH_1, CH_9, 113>>
  /\ count = 19
  /\ reg = 0
  /\ result = 4
  /\ nkeys = 3

\* C12: with prefix parsing, when the key after the optional count is the
\* register prefix, one more key x is read as selector: '1'..'9' give
\* register 1..9, 'a'..'z' give 10..35, any other x gives 0; the key after x
\* is the command key, resolved through the table (the resize code to the
\* resize signal); without the register prefix the register is 0 and the key
\* after the count is the command key.
C12_RegisterSelector ==
  GotWithPrefix =>
    LET k == Decoded
        n == CountLen(k)
        x == k[n + 2]
    IN  IF k[n + 1] = CH_QUOTE
        THEN /\ reg = (IF x >= CH_1 /\ x <= CH_9 THEN x - CH_0
                       ELSE IF x >= CH_a /\ x <= CH_z THEN 10 + (x - CH_a)
                       ELSE 0)
             /\ nkeys = n + 3
             /\ kch = k[n + 3]
             /\ result = Resolved(k[n + 3])
        ELSE /\ reg = 0
             /\ nkeys = n + 1
             /\ kch = k[n + 1]
             /\ result = Resolved(k[n + 1])

\* The input 9 " z q gave count 9, register 35 and generic-quit.
C12_Witness ==
  /\ GotWithPrefix
  /\ input = <<CH_9, CH_QUOTE, CH_z, 113>>
  /\ count = 9
  /\ reg = 35
  /\ result = 4
  /\ nkeys = 4

\* The number of wgetch calls made before the n-th call of keys_wgetch.
RECURSIVE StartOf(_, _)
StartOf(s, n) == IF n <= 1 THEN 0 ELSE keys_wgetch(s, StartOf(s, n - 1)).pos

\* A wgetch call made for the key read last failed.
LastReadFailed ==
  \E q \in StartOf(input, nkeys) .. (pos - 1) : wgetch(input, q) = ERR

\* C13: when a wgetch call made while decoding a key fails, for the first
\* unit or for a continuation byte, keys_wgetch gives ERR and no key code,
\* and keys_get returns neither a virtual key nor any other value than the
\* one it returns for ERR.
C13_FailedReadIsAbsence ==
  (gpc = "done" /\ LastReadFailed) => (kch = ERR /\ result = ERR)

\* C18: when the key code keys_get read last is the resize code it returns
\* KEY_RESIZE, with or without prefix parsing and whatever the table holds
\* for that code; for every other code it returns lookup(code); without
\* prefix parsing it reads exactly one key.
C18_ResizeBypassesLookup ==
  gpc = "done" =>
    /\ kch = Decoded[nkeys]
    /\ kch = KEY_RESIZE => result = KEY_RESIZE
    /\ kch # KEY_RESIZE => result = Lookup(kch)
    /\ ~prefix => nkeys = 1

\* The resize code, bound to generic-quit, was read after a count and
\* returned as itself.
C18_Witness ==
  /\ GotWithPrefix
  /\ input = <<CH_1, CH_0, KEY_RESIZE>>
  /\ Lookup(KEY_RESIZE) = 4
  /\ kch = KEY_RESIZE
  /\ result = KEY_RESIZE

\* The raw unit the key read last started with, and the calls of wgetch made
\* for that key.
LastLead == wgetch(input, StartOf(input, nkeys))
LastUnits == pos - StartOf(input, nkeys)

\* The code points whose encodings are read.
ReadCodepoints == {233, 8364, 128512}

\* C19: keys_wgetch reads one raw unit and returns it unchanged when it is a
\* pseudo-key code or a single byte; for a lead byte of UTF-8 length L in
\* 2..4 it reads the L units one after the other and returns the decoded code
\* point plus KEY_MAX: the encoding of c gives c + KEY_MAX.
C19_DecodeOneKey ==
  (nkeys >= 1 /\ LastLead # ERR) =>
    IF LastLead >= KEY_MIN \/ LastLead < 192
    THEN LastUnits = 1 /\ kch = LastLead
    ELSE /\ LastUnits = (IF LastLead >= 240 THEN 4
                         ELSE IF LastLead >= 224 THEN 3 ELSE 2)
         /\ kch >= KEY_MAX
         /\ \A c \in ReadCodepoints :
              (pos <= Len(input)
                 /\ SubSeq(input, StartOf(input, nkeys) + 1, pos) = utf8_encode(c))
                => kch = c + KEY_MAX

\* The four bytes of U+1F600 were read as one key after another key.
C19_Witness ==
  /\ nkeys = 2
  /\ LastUnits = 4
  /\ pos = Len(input)
  /\ kch = KEY_MAX + 128512

\* C14: for 0 <= page_base < count and n = min(page_size, count - page_base),
\* keys_display_bindings_bar draws exactly n slots, slot i in row i mod 2 and
\* column i div 2; the slots 0 .. n-2 show bindings[page_base + i]; the last
\* slot shows the other-cmd entry if and only if page_base + n < count, and
\* bindings[count - 1] otherwise.
C14_BarSlots ==
  bar.pc = "drawn" =>
    LET n == MIN(bar.page_size, bar.count - bar.page_base)
        width == (bar.col * 2) \div n
    IN  /\ Len(bar.slots) = n
        /\ \A i \in 0 .. (n - 1) :
             /\ bar.slots[i + 1].key_pos_y = i % 2
             /\ bar.slots[i + 1].key_pos_x = (i \div 2) * width
             /\ i <= n - 2 =>
                  bar.slots[i + 1].binding_key = bar.bindings[bar.page_base + i + 1]
        /\ bar.slots[n].binding_key =
             (IF bar.page_base + n < bar.count
              THEN KEY_GENERIC_OTHER_CMD
              ELSE bar.bindings[bar.count])

\* A page that is not the last one was drawn: its last slot shows other-cmd
\* in place of a binding that is another virtual key.
C14_Witness ==
  /\ bar.pc = "drawn"
  /\ Len(bar.slots) = bar.page_size
  /\ bar.page_size >= 3
  /\ bar.page_base >= 1
  /\ bar.page_base + bar.page_size < bar.count
  /\ bar.bindings[bar.page_base + bar.page_size] # KEY_GENERIC_OTHER_CMD
  /\ bar.slots[bar.page_size].binding_key = KEY_GENERIC_OTHER_CMD

\* The last call was keys_save_bindings, it has written the file, and no
\* call has used a null pointer as a string.
Saved == last.op = "save" /\ ~undef

\* C15: keys_save_bindings writes, after the intro, one line per virtual key
\* in the order of keydef[]: the label, two spaces and
\* keys_action_allkeys(i); the value is UNDEFINED exactly for the virtual
\* keys that are explicitly undefined.
C15_SaveLines ==
  Saved =>
    /\ Len(file) = Len(dump_intro) + NBVKEYS
    /\ SubSeq(file, 1, Len(dump_intro)) = dump_intro
    /\ \A v \in VKeys :
         /\ file[Len(dump_intro) + v + 1] =
              keydef_label[v + 1] \o <<32, 32>> \o keys_action_allkeys(Table, v)
         /\ keys_action_allkeys(Table, v) = UNDEFINED
              <=> ExplicitlyUndefined(keys[v])


\* The three ranges of key codes: ordinary characters, the pseudo-keys of
\* curses, and the codes at and above KEY_MAX.
Ordinary == 1 .. 127
PseudoKey == KEY_MIN .. (KEY_MAX - 1)
Extended == KEY_MAX .. (KEY_MAX + MaxCodepoint)

RangesOf(k) ==
  {r \in {"ordinary", "pseudo", "extended"} :
     \/ r = "ordinary" /\ k \in Ordinary
     \/ r = "pseudo" /\ k \in PseudoKey
     \/ r = "extended" /\ k \in Extended}

\* The construction the range of k stands for.
PathOfRange(k) == IF k \in Extended THEN "extended" ELSE "dense"

\* C16: a key code of one of the three ranges belongs to exactly one of
\* them, and lookup, assign, remove and the naming of the code all take the
\* array for an ordinary or pseudo-key code and the extended part for a code
\* at or above KEY_MAX, the code KEY_MAX included.
C16_OneRangeOnePath ==
  (path.pc = "done" /\ RangesOf(path.key) # {}) =>
    /\ Cardinality(RangesOf(path.key)) = 1
    /\ path.lookup = PathOfRange(path.key)
    /\ path.assign = PathOfRange(path.key)
    /\ path.remove = PathOfRange(path.key)
    /\ path.name = PathOfRange(path.key)


\* The key codes of the calls and of every default binding.
KnownCodes ==
  Keys \cup UNION {{keydef_codes[v][n] : n \in 1 .. Len(keydef_codes[v])} :
                     v \in VKeys}

\* This step is a call of keys_fill_missing.
FillStep == last'.op = "fill"

\* C17: keys_fill_missing gives defaults to missing virtual keys only: the
\* forward list of every virtual key that was configured or explicitly
\* undefined is the same after the call, every key code that was bound has
\* the owner it had, the count returned on success is the number of virtual
\* keys that were missing, and a refused default is one of such a virtual key.
C17_Step ==
  FillStep =>
    /\ \A v \in VKeys : ~Missing(keys[v]) => keys'[v] = keys[v]
    /\ \A k \in KnownCodes :
         keys_get_action(Table, k) # KEY_UNDEF =>
           keys_get_action(Table, k)' = keys_get_action(Table, k)
    /\ ~last'.failed =>
         last'.ret = Cardinality({v \in VKeys : Missing(keys[v])})
    /\ last'.failed => Missing(keys[last'.index])

C17_FillOnlyMissing == [][C17_Step]_vars

\* keys_fill_missing has succeeded on a table with generic-cancel configured
\* (with U+00E9 only) and generic-quit explicitly undefined: it has counted
\* the other virtual keys.
C17_Witness ==
  /\ last.op = "fill"
  /\ ~last.failed
  /\ ~undef
  /\ last.ret = NBVKEYS - 2
  /\ keys[0] = <<keys_int2str(KEY_MAX + 233)>>
  /\ ExplicitlyUndefined(keys[4])


\* No item of the list l holds a null pointer.
NoSentinel(l) == \A n \in 1 .. Len(l) : l[n] # NULL

\* C20: after any calls of assign, remove and fill_missing, the forward list
\* of every virtual key is empty, or the single sentinel, or a non-empty
\* list of key names without a sentinel, also when a key code without a
\* name has been assigned.
C20_ListShapes ==
  ~undef =>
    \A v \in VKeys :
      \/ Missing(keys[v])
      \/ ExplicitlyUndefined(keys[v])
      \/ NoSentinel(keys[v])


\* C21: whatever key codes lookup, assign and remove are called with, the
\* code KEY_MAX included, no index outside [0, KEY_MAX) is used into
\* actions[].
C21_IndexInBounds == ~oob


\* C22: keys_get_label and keys_get_binding exit with the fatal error for
\* every argument that is no virtual key, add_key_str, del_key_str and
\* keys_popup_info return at once for exactly those arguments, and none of
\* the five uses an index outside [0, NBVKEYS) into keydef[] or keys[].
C22_VkeyGuards ==
  guard.pc = "done" =>
    /\ guard.arg \notin VKeys =>
         guard.did = IF guard.fn \in {"keys_get_label", "keys_get_binding"}
                     THEN Exits ELSE Returns
    /\ guard.arg \in VKeys => guard.did = Indexes(guard.arg)
    /\ guard.did.out = "index" => guard.did.index \in VKeys


\* C23: with count and reg given, keys_get returns a count of at least 1 and
\* a register from 0 to 35 for every input, also after a run of digits whose
\* value does not fit an int (the accumulation wraps around 2^32).
C23_CountAndRegisterRange ==
  GotWithPrefix => count >= 1 /\ reg \in 0 .. 35

====
